---- MODULE Spec2Model ----
(***************************************************************************)
(* Model of baodongle/semantic-versioning: the version-string parser, the  *)
(* Version class (construction, rendering, ordering) of main.py and the    *)
(* patch-bump script post_commit.py.                                       *)
(*                                                                         *)
(* Python strings are sequences of one-character strings.  Python values   *)
(* handed to the constructor are records tagged with their type.          *)
(***************************************************************************)
EXTENDS Integers, Sequences, FiniteSets, TLC

VARIABLES
  pc,        \* control position of the scenario
  string,    \* argument of the parser
  ret,       \* outcome of the parser
  args,      \* arguments of Version(...)
  obj,       \* outcome of Version(...)
  rendered,  \* str(version)
  obj2,      \* outcome of Version(str(version))
  vs,        \* the Versions being compared
  cmp,       \* results of the relational operators on vs[1], vs[2]
  file,      \* the file VERSION
  first,     \* VERSION before the first run of the script
  orig,      \* VERSION at the start of the current run
  content,   \* the script's variable content
  version,   \* the script's variable version
  out,       \* what the script printed in the current run
  runs,      \* number of the current run
  iofail,    \* an I/O call failed in the current run
  everfail   \* an I/O call failed in some run

vars == <<pc, string, ret, args, obj, rendered, obj2, vs, cmp,
          file, first, orig, content, version, out, runs, iofail, everfail>>

(* ------------------------------ bounds -------------------------------- *)
MaxFields == 4          \* dot-separated fields of a generated input string
MaxComponent == 11      \* largest integer component handed to Version
MaxTupleLen == 4        \* longest tuple handed to Version
MaxRuns == 2            \* successive runs of the bump script
MaxOrd == 2             \* largest component of the Versions that are compared

(* --------------------------- Python values ---------------------------- *)
None == [type |-> "NoneType"]
PyInt(n) == [type |-> "int", v |-> n]
PyStr(s) == [type |-> "str", v |-> s]
PyTuple(t) == [type |-> "tuple", v |-> t]
PyList(t) == [type |-> "list", v |-> t]
PyFloat(n) == [type |-> "float", v |-> n]

Digits == <<"0", "1", "2", "3", "4", "5", "6", "7", "8", "9">>
DigitSet == {Digits[i] : i \in 1..10}
Whitespace == {" ", "\n"}

DigitVal(c) == (CHOOSE i \in 1..10 : Digits[i] = c) - 1

(* str.strip(): drop leading and trailing whitespace *)
RECURSIVE LStrip(_)
LStrip(s) == IF s # <<>> /\ Head(s) \in Whitespace THEN LStrip(Tail(s)) ELSE s

RECURSIVE RStrip(_)
RStrip(s) ==
  IF s # <<>> /\ s[Len(s)] \in Whitespace
  THEN RStrip(SubSeq(s, 1, Len(s) - 1)) ELSE s

Strip(s) == RStrip(LStrip(s))

(* str.split('.'): always at least one field, empty fields are kept *)
RECURSIVE SplitDot(_, _, _)
SplitDot(s, cur, acc) ==
  IF s = <<>> THEN Append(acc, cur)
  ELSE IF Head(s) = "." THEN SplitDot(Tail(s), <<>>, Append(acc, cur))
  ELSE SplitDot(Tail(s), Append(cur, Head(s)), acc)

Split(s) == SplitDot(s, <<>>, <<>>)

(* f'{n}' of an int: decimal digits, '-' in front of a negative number *)
RECURSIVE NatToStr(_)
NatToStr(n) ==
  IF n < 10 THEN <<Digits[n + 1]>>
  ELSE Append(NatToStr(n \div 10), Digits[(n % 10) + 1])

IntToStr(n) == IF n < 0 THEN <<"-">> \o NatToStr(0 - n) ELSE NatToStr(n)

(* int(str): surrounding whitespace is ignored, one optional sign, then    *)
(* decimal digits in which single underscores may separate digits.         *)
RECURSIVE DigitsToNat(_, _)
DigitsToNat(s, acc) ==
  IF s = <<>> THEN acc
  ELSE IF Head(s) = "_" THEN DigitsToNat(Tail(s), acc)
  ELSE DigitsToNat(Tail(s), acc * 10 + DigitVal(Head(s)))

IsIntBody(s) ==
  /\ s # <<>>
  /\ \A i \in 1..Len(s) : s[i] \in DigitSet \cup {"_"}
  /\ s[1] \in DigitSet
  /\ s[Len(s)] \in DigitSet
  /\ \A i \in 1..(Len(s) - 1) : ~(s[i] = "_" /\ s[i + 1] = "_")

Raise(e) == [exc |-> e, val |-> None]
Return(v) == [exc |-> "none", val |-> v]

IntOfBody(body, negative) ==
  IF ~IsIntBody(body) THEN Raise("ValueError")
  ELSE IF negative THEN Return(0 - DigitsToNat(body, 0))
  ELSE Return(DigitsToNat(body, 0))

IntOfStripped(t) ==
  IF t # <<>> /\ Head(t) \in {"+", "-"}
  THEN IntOfBody(Tail(t), Head(t) = "-")
  ELSE IntOfBody(t, FALSE)

int(number) == IntOfStripped(Strip(number))

(* if version >= 0: return version; raise ValueError(...) *)
CheckPositive(v) ==
  IF v.exc # "none" THEN v
  ELSE IF v.val >= 0 THEN v
  ELSE Raise("ValueError")

(* _get_valid_version without the check version >= 0 *)
get_valid_version_Mut(number) == int(number)

(* main.py _get_valid_version *)
get_valid_version(number) == CheckPositive(int(number))

(* list(map(_get_valid_version, fields)): the first failure propagates *)
RECURSIVE MapValid(_, _)
RECURSIVE MapNext(_, _, _)
MapNext(r, rest, acc) ==
  IF r.exc # "none" THEN r ELSE MapValid(rest, Append(acc, r.val))

MapValid(fields, acc) ==
  IF fields = <<>> THEN Return(acc)
  ELSE MapNext(get_valid_version(Head(fields)), Tail(fields), acc)

Zeros(n) == [i \in 1..(IF n > 0 THEN n ELSE 0) |-> 0]

(* component without the slice [:3] *)
Take3_Mut(s) == s

(* list[:3] *)
Take3(s) == SubSeq(s, 1, IF Len(s) < 3 THEN Len(s) ELSE 3)

(* except ValueError: log and return None; anything else propagates *)
CatchValueError(r) == IF r.exc = "ValueError" THEN Return(None) ELSE r

(* return tuple(component[:3] + [0 for _ in range(3 - len(component))]) *)
PadTo3(component) ==
  IF component.exc # "none" THEN component
  ELSE Return(PyTuple(Take3(component.val) \o Zeros(3 - Len(component.val))))

(* main.py convert_string_to_version_component_numbers *)
convert_string_to_version_component_numbers(s) ==
  CatchValueError(PadTo3(MapValid(Split(Strip(s)), <<>>)))

(* --------------------------- input strings ---------------------------- *)
(* Input strings are built from dot-separated fields and optional           *)
(* surrounding whitespace; the parser works on their characters.            *)
FieldSet ==
  { <<>>, <<"0">>, <<"5">>, <<"1", "2">>, <<"-", "1">>, <<"x">>,
    <<" ", "3">>, <<"1", "_", "0">> }

RECURSIVE Join(_)
Join(fields) ==
  IF Len(fields) = 1 THEN fields[1]
  ELSE fields[1] \o <<".">> \o Join(Tail(fields))

Paddings == { <<<<>>, <<>>>>, <<<<" ">>, <<>>>>, <<<<>>, <<"\n">>>> }

StringsOf(F, n) ==
  { p[1] \o Join(fs) \o p[2] :
      fs \in UNION { [1..k -> F] : k \in 1..n }, p \in Paddings }

ParserInputs == StringsOf(FieldSet, MaxFields)

(* ------------------------------ idle parts ---------------------------- *)
ParserIdle == string = <<>> /\ ret = Return(None)
CtorIdle == args = <<>> /\ obj = Return(None) /\ rendered = <<>>
            /\ obj2 = Return(None)
OrderIdle == vs = <<>> /\ cmp = <<>>
BumpIdle == file = None /\ first = None /\ orig = None /\ content = None
            /\ version = None /\ out = <<>> /\ runs = 0 /\ iofail = FALSE
            /\ everfail = FALSE

parserVars == <<string, ret>>
ctorVars == <<args, obj, rendered, obj2>>
orderVars == <<vs, cmp>>
bumpVars == <<file, first, orig, content, version, out, runs, iofail, everfail>>

(* =========================== the parser =============================== *)
InitParse ==
  /\ pc = "call"
  /\ string \in ParserInputs
  /\ ret = Return(None)
  /\ CtorIdle /\ OrderIdle /\ BumpIdle

Parse ==
  /\ pc = "call"
  /\ ret' = convert_string_to_version_component_numbers(string)
  /\ pc' = "returned"
  /\ UNCHANGED <<string, ctorVars, orderVars, bumpVars>>

NextParse == Parse

SpecParse == InitParse /\ [][NextParse]_vars

(* what the fields of the trimmed text are, read off the text itself *)
Fields == Split(Strip(string))
FieldOk(f) == int(f).exc = "none" /\ int(f).val >= 0
AllFieldsOk == \A i \in 1..Len(Fields) : FieldOk(Fields[i])
Min(a, b) == IF a < b THEN a ELSE b

\* C2: when every dot-separated field of the trimmed text is a non-negative
\* integer, the parser returns exactly 3 components: the first min(n,3)
\* fields in order followed by 3 - min(n,3) zeros.
C2_PadTruncate ==
  (pc = "returned" /\ AllFieldsOk) =>
    /\ ret.exc = "none"
    /\ ret.val.type = "tuple"
    /\ Len(ret.val.v) = 3
    /\ \A i \in 1..3 :
         ret.val.v[i] = IF i <= Min(Len(Fields), 3)
                        THEN int(Fields[i]).val ELSE 0

C2_Witness ==
  /\ pc = "returned"
  /\ string = <<"1", "2", ".", "5", ".", "0", ".", "5">>
  /\ ret = Return(PyTuple(<<12, 5, 0>>))

\* C4: the parser never raises; it returns a triple or the failure value
\* None, and it returns None whenever some field of the trimmed text fails
\* integer conversion or is negative, wherever that field is.
C4_NeverRaises ==
  pc = "returned" =>
    /\ ret.exc = "none"
    /\ ret.val.type \in {"tuple", "NoneType"}
    /\ (~AllFieldsOk) => ret.val = None

C4_Witness ==
  /\ pc = "returned"
  /\ string = <<"0", ".", "5", ".", "1", "2", ".", "x">>
  /\ ret = Return(None)

(* ========================= the Version class ========================== *)
isinstance(x, t) == x.type = t

(* a, b, c = value: None cannot be unpacked, a tuple must have 3 entries *)
Unpack3(value) ==
  IF value.type # "tuple" THEN Raise("TypeError")
  ELSE IF Len(value.v) # 3 THEN Raise("ValueError")
  ELSE Return(value.v)

NewVersion(major, minor, patch) ==
  [major |-> major, minor |-> minor, patch |-> patch,
   component |-> <<major, minor, patch>>]

UnpackResult(r) == IF r.exc # "none" THEN r ELSE Unpack3(r.val)

(* the three attributes assigned from an unpacked value *)
Assigned(u) ==
  IF u.exc # "none" THEN u
  ELSE Return(NewVersion(u.val[1], u.val[2], u.val[3]))

(* main.py Version.__init__ *)
Version__init__(major, minor, patch) ==
  IF \A x \in {major, minor, patch} : isinstance(x, "int")
  THEN Return(NewVersion(major.v, minor.v, patch.v))
  ELSE IF isinstance(major, "str")
  THEN Assigned(UnpackResult(
                  convert_string_to_version_component_numbers(major.v)))
  ELSE IF isinstance(major, "tuple")
  THEN Assigned(Unpack3(PyTuple(Take3(major.v) \o Zeros(3 - Len(major.v)))))
  ELSE Return(NewVersion(0, 0, 0))

(* __str__ with patch and minor exchanged *)
Version__str__Mut(self) ==
  IntToStr(self.major) \o <<".">> \o IntToStr(self.patch) \o <<".">>
    \o IntToStr(self.minor)

(* main.py Version.__str__ *)
Version__str__(self) ==
  IntToStr(self.major) \o <<".">> \o IntToStr(self.minor) \o <<".">>
    \o IntToStr(self.patch)

(* Python's ordering of tuples: the first differing entry decides, and a   *)
(* proper prefix is smaller.                                               *)
RECURSIVE TupleLt(_, _)
TupleLt(s, t) ==
  IF s = <<>> THEN t # <<>>
  ELSE IF t = <<>> THEN FALSE
  ELSE IF Head(s) # Head(t) THEN Head(s) < Head(t)
  ELSE TupleLt(Tail(s), Tail(t))

(* compare_versions deciding "below" on the major number alone *)
compare_versions_Mut(this, other) ==
  IF this[1] < other[1] THEN -1 ELSE IF this = other THEN 0 ELSE 1

(* main.py compare_versions *)
compare_versions(this, other) ==
  IF TupleLt(this, other) THEN -1 ELSE IF this = other THEN 0 ELSE 1

(* main.py Version.__lt__, Version.__eq__ *)
Version__lt__(self, other) ==
  compare_versions(self.component, other.component) = -1

Version__eq__(self, other) ==
  compare_versions(self.component, other.component) = 0

(* the operators @total_ordering derives from __lt__ and __eq__, and the   *)
(* default __ne__                                                          *)
Version__ne__(self, other) == ~Version__eq__(self, other)
Version__le__(self, other) ==
  Version__lt__(self, other) \/ Version__eq__(self, other)
Version__gt__(self, other) ==
  ~Version__lt__(self, other) /\ Version__ne__(self, other)
Version__ge__(self, other) == ~Version__lt__(self, other)

(* ------------------------- constructing Versions ---------------------- *)
CtorFields == { <<>>, <<"1">>, <<"2", "0">>, <<"x">> }
CtorStrings == StringsOf(CtorFields, MaxFields)
Components == (0 - 1)..MaxComponent
TupleItems == (0 - 1)..1
Zero == PyInt(0)

IntArgs == { <<PyInt(a), PyInt(b), PyInt(c)>> : a, b, c \in Components }
StrArgs == { <<PyStr(t), Zero, Zero>> : t \in CtorStrings }
TupleArgs ==
  { <<PyTuple(t), Zero, Zero>> :
      t \in UNION { [1..k -> TupleItems] : k \in 0..MaxTupleLen } }
OtherArgs ==
  { <<PyList(<<1, 2, 3>>), Zero, Zero>>,
    <<PyFloat(1), Zero, Zero>>,
    <<PyInt(1), PyStr(<<"2">>), Zero>>,
    <<PyInt(1), Zero, PyFloat(3)>> }

InitCtor ==
  /\ pc = "new"
  /\ \/ args \in IntArgs
     \/ args \in StrArgs
     \/ args \in TupleArgs
     \/ args \in OtherArgs
  /\ obj = Return(None) /\ rendered = <<>> /\ obj2 = Return(None)
  /\ ParserIdle /\ OrderIdle /\ BumpIdle

(* Version(major, minor, patch) *)
Construct ==
  /\ pc = "new"
  /\ obj' = Version__init__(args[1], args[2], args[3])
  /\ pc' = IF obj'.exc = "none" THEN "constructed" ELSE "raised"
  /\ UNCHANGED <<args, rendered, obj2, parserVars, orderVars, bumpVars>>

(* str(version) *)
Render ==
  /\ pc = "constructed"
  /\ rendered' = Version__str__(obj.val)
  /\ pc' = "rendered"
  /\ UNCHANGED <<args, obj, obj2, parserVars, orderVars, bumpVars>>

(* Version(str(version)) *)
Reconstruct ==
  /\ pc = "rendered"
  /\ obj2' = Version__init__(PyStr(rendered), Zero, Zero)
  /\ pc' = "done"
  /\ UNCHANGED <<args, obj, rendered, parserVars, orderVars, bumpVars>>

NextCtor == Construct \/ Render \/ Reconstruct

SpecCtor == InitCtor /\ [][NextCtor]_vars

AllInts == \A i \in 1..3 : args[i].type = "int"
NonNegInts == AllInts /\ \A i \in 1..3 : args[i].v >= 0

\* C3: round trip: for non-negative integers a, b, c the Version built from
\* the rendering of Version(a, b, c) exists and equals Version(a, b, c), with
\* the same major, minor and patch.
C3_RoundTrip ==
  (pc = "done" /\ NonNegInts) =>
    /\ obj2.exc = "none"
    /\ Version__eq__(obj2.val, obj.val)
    /\ obj2.val.major = args[1].v
    /\ obj2.val.minor = args[2].v
    /\ obj2.val.patch = args[3].v

C3_Witness ==
  /\ pc = "done"
  /\ args = <<PyInt(10), PyInt(0), PyInt(11)>>
  /\ rendered = <<"1", "0", ".", "0", ".", "1", "1">>
  /\ obj2 = Return(NewVersion(10, 0, 11))

ParserRejects ==
  /\ args[1].type = "str"
  /\ convert_string_to_version_component_numbers(args[1].v).val = None

\* C5: constructing a Version from a string the parser rejects fails with
\* the parse failure (the ValueError of the invalid component) surfaced to
\* the caller, and yields no Version.
C5_ParseFailureSurfaced ==
  (pc # "new" /\ ParserRejects) => (pc = "raised" /\ obj.exc = "ValueError")

\* C6: every Version that exists after construction has major, minor and
\* patch >= 0; construction from negative components fails.
C6_NonNegative ==
  (pc # "new" /\ obj.exc = "none") =>
    (obj.val.major >= 0 /\ obj.val.minor >= 0 /\ obj.val.patch >= 0)

Supported ==
  \/ AllInts
  \/ args[1].type = "str"
  \/ args[1].type = "tuple"

\* C7: input whose shape matches none of the supported representations is
\* rejected explicitly and never yields the Version (0, 0, 0).
C7_UnsupportedRejected ==
  (pc # "new" /\ ~Supported) => (pc = "raised" /\ obj.exc # "none")

(* ========================== comparing Versions ======================== *)
OrdComponents == 0..MaxOrd

InitOrder ==
  /\ pc = "build"
  /\ vs = <<>> /\ cmp = <<>>
  /\ ParserIdle /\ CtorIdle /\ BumpIdle

CanBuild == pc = "build" /\ Len(vs) < 3
OrderRest == <<pc, cmp, parserVars, ctorVars, bumpVars>>

(* Version(a, b, c) *)
NewFromInts ==
  /\ CanBuild
  /\ \E a, b, c \in OrdComponents :
       \E o \in {Version__init__(PyInt(a), PyInt(b), PyInt(c))} :
         o.exc = "none" /\ vs' = Append(vs, o.val)
  /\ UNCHANGED OrderRest

(* Version((a, b)) and Version((a, b, c)) *)
NewFromTuple ==
  /\ CanBuild
  /\ \E t \in UNION { [1..k -> OrdComponents] : k \in 2..3 } :
       \E o \in {Version__init__(PyTuple(t), Zero, Zero)} :
         o.exc = "none" /\ vs' = Append(vs, o.val)
  /\ UNCHANGED OrderRest

(* Version("a.b.c") *)
NewFromString ==
  /\ CanBuild
  /\ \E a, b, c \in OrdComponents :
       \E o \in {Version__init__(
                   PyStr(IntToStr(a) \o <<".">> \o IntToStr(b) \o <<".">>
                           \o IntToStr(c)), Zero, Zero)} :
         o.exc = "none" /\ vs' = Append(vs, o.val)
  /\ UNCHANGED OrderRest

(* x < y, x <= y, x == y, x != y, x > y, x >= y, compare_versions(x, y) *)
Compare ==
  /\ pc = "build"
  /\ Len(vs) = 3
  /\ LET x == vs[1]
         y == vs[2]
     IN cmp' = [lt |-> Version__lt__(x, y), le |-> Version__le__(x, y),
                eq |-> Version__eq__(x, y), ne |-> Version__ne__(x, y),
                gt |-> Version__gt__(x, y), ge |-> Version__ge__(x, y),
                c |-> compare_versions(x.component, y.component)]
  /\ pc' = "compared"
  /\ UNCHANGED <<vs, parserVars, ctorVars, bumpVars>>

NextOrder == NewFromInts \/ NewFromTuple \/ NewFromString \/ Compare

SpecOrder == InitOrder /\ [][NextOrder]_vars

(* lexicographic order of (major, minor, patch), major first *)
LexLess(x, y) ==
  \/ x.major < y.major
  \/ x.major = y.major /\ x.minor < y.minor
  \/ x.major = y.major /\ x.minor = y.minor /\ x.patch < y.patch

Same(x, y) == x.major = y.major /\ x.minor = y.minor /\ x.patch = y.patch

Count(S) == Cardinality({b \in S : b[2]})

\* C1: the six relational operators and compare_versions agree with the
\* lexicographic comparison of (major, minor, patch); exactly one of x<y,
\* x==y, x>y holds; x<y and y<z imply x<z; x<=y holds iff x>y does not.
C1_TotalOrder ==
  pc = "compared" =>
    LET x == vs[1]
        y == vs[2]
        z == vs[3]
    IN /\ cmp.lt = LexLess(x, y)
       /\ cmp.eq = Same(x, y)
       /\ cmp.gt = LexLess(y, x)
       /\ cmp.le = (LexLess(x, y) \/ Same(x, y))
       /\ cmp.ge = (LexLess(y, x) \/ Same(x, y))
       /\ cmp.ne = ~Same(x, y)
       /\ cmp.c = (IF LexLess(x, y) THEN -1 ELSE IF Same(x, y) THEN 0 ELSE 1)
       /\ Count({<<"lt", cmp.lt>>, <<"eq", cmp.eq>>, <<"gt", cmp.gt>>}) = 1
       /\ (cmp.lt /\ Version__lt__(y, z)) => Version__lt__(x, z)
       /\ cmp.le = ~cmp.gt

C1_Witness ==
  /\ pc = "compared"
  /\ vs[1] = NewVersion(1, 2, 0)
  /\ vs[2] = NewVersion(2, 0, 1)
  /\ vs[3] = NewVersion(2, 1, 0)
  /\ cmp.lt /\ ~cmp.eq /\ ~cmp.gt /\ cmp.c = -1

(* ===================== the bump script post_commit.py ================= *)
NoFile == [exists |-> FALSE, data |-> <<>>]
FileOf(data) == [exists |-> TRUE, data |-> data]

BumpFields == { <<"1">>, <<"9">>, <<"x">> }
FileStrings == StringsOf(BumpFields, MaxFields)

AccessError == [kind |-> "access", text |-> <<>>]
InvalidVersion(c) == [kind |-> "invalid", text |-> c]

InitBump ==
  /\ pc = "start"
  /\ \/ file = NoFile
     \/ \E data \in FileStrings : file = FileOf(data)
  /\ first = file /\ orig = file
  /\ content = None /\ version = None /\ out = <<>>
  /\ runs = 1 /\ iofail = FALSE /\ everfail = FALSE
  /\ ParserIdle /\ CtorIdle /\ OrderIdle

(* except OSError: print('Error occurred when access file VERSION') *)
ExceptOSError ==
  /\ out' = Append(out, AccessError)
  /\ iofail' = TRUE /\ everfail' = TRUE
  /\ pc' = "done"

NoFailure == UNCHANGED <<out, iofail, everfail>>
OtherVars == <<parserVars, ctorVars, orderVars, first, orig, runs>>

(* if isfile('VERSION'): open('VERSION', 'r+') *)
OpenExisting ==
  /\ pc = "start" /\ file.exists
  /\ \/ pc' = "read" /\ NoFailure
     \/ ExceptOSError
  /\ UNCHANGED <<file, content, version, OtherVars>>

(* else: open('VERSION', 'w') creates the file empty *)
OpenNew ==
  /\ pc = "start" /\ ~file.exists
  /\ \/ pc' = "write_new" /\ file' = FileOf(<<>>) /\ NoFailure
     \/ ExceptOSError /\ UNCHANGED file
  /\ UNCHANGED <<content, version, OtherVars>>

(* content = f.read() *)
Read ==
  /\ pc = "read"
  /\ \/ pc' = "parse" /\ content' = PyStr(file.data) /\ NoFailure
     \/ ExceptOSError /\ UNCHANGED content
  /\ UNCHANGED <<file, version, OtherVars>>

(* the increment applied to minor instead of patch *)
Bumped_Mut(v) == [v EXCEPT !.minor = @ + 1]

(* version.patch += 1 *)
Bumped(v) == [v EXCEPT !.patch = @ + 1]

(* version = Version(content); version.patch += 1, with                   *)
(* except TypeError: print(f'{content} is not a valid version');           *)
(* r is the outcome of Version(content)                                    *)
Made(r) ==
  IF r.exc = "none"
  THEN version' = Bumped(r.val) /\ pc' = "truncate" /\ UNCHANGED out
  ELSE IF r.exc = "TypeError"
  THEN /\ out' = Append(out, InvalidVersion(content.v))
       /\ pc' = "done" /\ UNCHANGED version
  ELSE pc' = "uncaught" /\ UNCHANGED <<version, out>>

MakeVersion ==
  /\ pc = "parse"
  /\ Made(Version__init__(content, Zero, Zero))
  /\ UNCHANGED <<file, content, iofail, everfail, OtherVars>>

(* f.seek(0); f.truncate() *)
Truncate ==
  /\ pc = "truncate"
  /\ \/ pc' = "write" /\ file' = FileOf(<<>>) /\ NoFailure
     \/ ExceptOSError /\ UNCHANGED file
  /\ UNCHANGED <<content, version, OtherVars>>

(* f.write(str(version)) and the flush when the file is closed *)
Write ==
  /\ pc = "write"
  /\ \/ pc' = "done" /\ file' = FileOf(Version__str__(version)) /\ NoFailure
     \/ ExceptOSError /\ UNCHANGED file
  /\ UNCHANGED <<content, version, OtherVars>>

(* f.write('1.0.1') and the flush when the file is closed *)
WriteNew ==
  /\ pc = "write_new"
  /\ \/ pc' = "done" /\ file' = FileOf(<<"1", ".", "0", ".", "1">>)
        /\ NoFailure
     \/ ExceptOSError /\ UNCHANGED file
  /\ UNCHANGED <<content, version, OtherVars>>

(* the next commit runs the hook again, in a new process *)
NextRun ==
  /\ pc = "done" /\ runs < MaxRuns
  /\ pc' = "start" /\ runs' = runs + 1
  /\ orig' = file /\ content' = None /\ version' = None
  /\ out' = <<>> /\ iofail' = FALSE
  /\ UNCHANGED <<file, first, everfail, parserVars, ctorVars, orderVars>>

NextBump ==
  \/ OpenExisting \/ OpenNew \/ Read \/ MakeVersion \/ Truncate \/ Write
  \/ WriteNew \/ NextRun

SpecBump == InitBump /\ [][NextBump]_vars

Parsed(f) == convert_string_to_version_component_numbers(f.data).val
Canonical(a, b, c) ==
  IntToStr(a) \o <<".">> \o IntToStr(b) \o <<".">> \o IntToStr(c)

\* C8: a run without I/O failure creates a missing VERSION with content
\* "1.0.1"; when VERSION exists and parses to (a,b,c) it afterwards holds
\* exactly "a.b.(c+1)"; k successive runs from "a.b.c" leave "a.b.(c+k)".
C8_Bump ==
  pc = "done" =>
    /\ (~iofail /\ ~orig.exists) =>
          file = FileOf(<<"1", ".", "0", ".", "1">>)
    /\ (~iofail /\ orig.exists /\ Parsed(orig) # None) =>
          file = FileOf(Canonical(Parsed(orig).v[1], Parsed(orig).v[2],
                                  Parsed(orig).v[3] + 1))
    /\ (~everfail /\ first.exists /\ Parsed(first) # None) =>
          file = FileOf(Canonical(Parsed(first).v[1], Parsed(first).v[2],
                                  Parsed(first).v[3] + runs))

C8_Witness ==
  /\ pc = "done" /\ runs = 2 /\ ~everfail
  /\ first = FileOf(<<"1", ".", "9", ".", "9", "\n">>)
  /\ orig = FileOf(<<"1", ".", "9", ".", "1", "0">>)
  /\ file = FileOf(<<"1", ".", "9", ".", "1", "1">>)

\* C9: whatever step fails, the run ends with a diagnostic and VERSION is
\* either fully rewritten with the new version string or left with its
\* original content, never truncated with no replacement content.
C9_NoPartialWrite ==
  pc = "done" =>
    /\ (iofail \/ (orig.exists /\ Parsed(orig) = None)) => out # <<>>
    /\ \/ file = orig
       \/ version # None /\ file = FileOf(Version__str__(version))
       \/ ~orig.exists /\ file = FileOf(<<"1", ".", "0", ".", "1">>)

\* C10: in every reachable state of a Version, also after the bump script
\* incremented patch, component equals (major, minor, patch).
C10_ComponentInSync ==
  version # None =>
    version.component = <<version.major, version.minor, version.patch>>

====
